---- MODULE Spec2Model ----
(***************************************************************************)
(* A model of repo-sql-testing: the SQLite-backed record store (db.js),    *)
(* the issue parser's normalizer and validator (issue-parser.js) and the   *)
(* submission pipeline (process-issue.js).                                 *)
(*                                                                         *)
(* JavaScript strings are sequences of one-character strings, so that      *)
(* trim() and parseInt() are computed character by character.  A value     *)
(* that is a string or null/undefined uses the sentinels nullText and      *)
(* undefined, which are no sequence of single characters; a value that is  *)
(* an object or null (a row, a record id) uses the record null.            *)
(***************************************************************************)
EXTENDS Integers, Sequences, FiniteSets, TLC

VARIABLES
    users,            \* the users table: id -> row
    sqlite_sequence,  \* AUTOINCREMENT's high-water mark for users.id
    now,              \* the wall clock read by datetime('now'), in seconds
    last,             \* the store call made last and what it returned or threw
    data,             \* issue-parser: the raw field map the extractor produced
    normalized,       \* issue-parser: what normalizeParsedData returned or threw
    report,           \* issue-parser: the validator's last call and its result
    pc,               \* concurrent updates: each invocation's position
    call,             \* concurrent updates: each invocation's arguments
    existingOf,       \* concurrent updates: updateRecord's local "existing"
    outcome,          \* concurrent updates: what each invocation reported
    crossed,          \* concurrent updates: the invocations that another one's
                      \* UPDATE overtook between their ownership check and
                      \* their own UPDATE (history)
    run,              \* processIssue: the locals of the invocation under way
    runs,             \* processIssue: the invocations started so far
    usersAtStart,     \* processIssue: the table as the invocation found it (history)
    opens,            \* processIssue: the connections the invocation opened (history)
    thrown,           \* processIssue: the error the invocation rejected with
    handle            \* db.js: the module's shared handle, the variable db

storeVars == <<users, sqlite_sequence, now>>
parseVars == <<data, normalized, report>>
concVars == <<pc, call, existingOf, outcome, crossed>>
pipeVars == <<run, runs, usersAtStart, opens, thrown>>
vars == <<users, sqlite_sequence, now, last, data, normalized, report,
          pc, call, existingOf, outcome, crossed, run, runs, usersAtStart,
          opens, thrown, handle>>

(***************************************************************************)
(* Bounds of the model.                                                    *)
(***************************************************************************)
MaxRecords == 2
MaxClock == 1

(***************************************************************************)
(* JavaScript values.                                                      *)
(***************************************************************************)
null == [null |-> TRUE]
NaN == [nan |-> TRUE]
Num(n) == [num |-> n]
none == [none |-> TRUE]      \* a variable that holds nothing yet
nullText == <<"null">>
undefined == <<"undefined">>

\* JavaScript truthiness of a string, null or undefined
Truthy(s) == s \notin {undefined, nullText, <<>>}

\* a || b on strings
Or(a, b) == IF Truthy(a) THEN a ELSE b

Max(a, b) == IF a >= b THEN a ELSE b

RECURSIVE MaxOf(_)
MaxOf(S) == IF S = {} THEN 0
            ELSE LET x == CHOOSE y \in S : TRUE
                 IN Max(x, MaxOf(S \ {x}))

(***************************************************************************)
(* String functions of the JavaScript runtime, as the code uses them.      *)
(***************************************************************************)
Whitespace == {" "}
Digits == <<"0", "1", "2", "3", "4", "5", "6", "7", "8", "9">>
IsDigit(c) == \E i \in 1 .. Len(Digits) : Digits[i] = c
DigitValue(c) == (CHOOSE i \in 1 .. Len(Digits) : Digits[i] = c) - 1

RECURSIVE TrimStart(_)
TrimStart(s) == IF s # <<>> /\ Head(s) \in Whitespace THEN TrimStart(Tail(s)) ELSE s

RECURSIVE TrimEnd(_)
TrimEnd(s) == IF s # <<>> /\ s[Len(s)] \in Whitespace
              THEN TrimEnd(SubSeq(s, 1, Len(s) - 1)) ELSE s

\* String.prototype.trim
Trim(s) == TrimEnd(TrimStart(s))

\* the value of the leading run of decimal digits of s, continuing acc
RECURSIVE DigitsValue(_, _)
DigitsValue(s, acc) ==
    IF s # <<>> /\ IsDigit(Head(s))
    THEN DigitsValue(Tail(s), 10 * acc + DigitValue(Head(s)))
    ELSE acc

\* parseInt(s, 10): leading whitespace skipped, an optional sign, then the
\* leading digits; NaN when no digit follows
parseInt(s) ==
    LET t == TrimStart(s)
        signed == t # <<>> /\ Head(t) \in {"-", "+"}
        body == IF signed THEN Tail(t) ELSE t
        sign == IF signed /\ Head(t) = "-" THEN -1 ELSE 1
    IN IF body = <<>> \/ ~IsDigit(Head(body)) THEN NaN
       ELSE Num(sign * DigitsValue(body, 0))

\* isNaN(x) for x a number, NaN or null
isNaN(x) == x = NaN

\* !x for x a number, NaN or null
Falsy(x) == x \in {null, NaN, Num(0)}

(***************************************************************************)
(* issue-parser.js                                                         *)
(***************************************************************************)

\* parseYAMLFrontmatter, one "key: value" line: the value is trimmed and one
\* pair of surrounding quotes is removed
FrontmatterValue(v) ==
    LET value == Trim(v)
        quoted(q) == value # <<>> /\ Head(value) = q /\ value[Len(value)] = q
    IN IF quoted("\"") \/ quoted("'")
       THEN SubSeq(value, 2, Len(value) - 1)
       ELSE value

IdKeys == {"recordId", "record_id", "id"}

\* the identifier the normalizer picks: data.recordId || data.record_id || data.id
PickedId(d) == Or(Or(d.recordId, d.record_id), d.id)

\* a normalizer that infers the kind from data.recordId alone
normalizeParsedData_KindFromRecordIdOnly(d) ==
    LET type == IF Truthy(d.recordId) THEN "update" ELSE "create"
        recordId == Or(PickedId(d), nullText)
        id == parseInt(recordId)
    IN IF Truthy(recordId) /\ isNaN(id)
       THEN [error |-> "InvalidRecordId"]
       ELSE [type |-> type,
             name |-> Or(d.name, <<>>),
             state |-> Or(d.state, <<>>),
             options |-> Or(d.options, <<>>),
             recordId |-> IF Truthy(recordId) THEN id ELSE null]

normalizeParsedData(d) ==
    LET type == IF Truthy(PickedId(d)) THEN "update" ELSE "create"
        recordId == Or(PickedId(d), nullText)
        id == parseInt(recordId)
    IN IF Truthy(recordId) /\ isNaN(id)
       THEN [error |-> "InvalidRecordId"]
       ELSE [type |-> type,
             name |-> Or(d.name, <<>>),
             state |-> Or(d.state, <<>>),
             options |-> Or(d.options, <<>>),
             recordId |-> IF Truthy(recordId) THEN id ELSE null]

\* a string field that is missing or blank: !s || s.trim() === ''
Blank(s) == ~Truthy(s) \/ Trim(s) = <<>>

\* a validator that stops at the first check that fails
validateIssueData_StopsAtFirstError(parsedData, issueType) ==
    LET typeErr == IF parsedData.type # issueType
                   THEN <<"Issue type mismatch">> ELSE <<>>
        nameErr == IF Blank(parsedData.name) THEN <<"Name is required">> ELSE <<>>
        stateErr == IF Blank(parsedData.state) THEN <<"State is required">> ELSE <<>>
        idErr == IF issueType = "update"
                    /\ (Falsy(parsedData.recordId) \/ isNaN(parsedData.recordId))
                 THEN <<"Record ID is required for updates">> ELSE <<>>
        errors == IF typeErr # <<>> THEN typeErr
                  ELSE IF nameErr # <<>> THEN nameErr
                  ELSE IF stateErr # <<>> THEN stateErr
                  ELSE idErr
    IN [isValid |-> Len(errors) = 0, errors |-> errors]

validateIssueData(parsedData, issueType) ==
    LET typeErr == IF parsedData.type # issueType
                   THEN <<"Issue type mismatch">> ELSE <<>>
        nameErr == IF Blank(parsedData.name) THEN <<"Name is required">> ELSE <<>>
        stateErr == IF Blank(parsedData.state) THEN <<"State is required">> ELSE <<>>
        idErr == IF issueType = "update"
                    /\ (Falsy(parsedData.recordId) \/ isNaN(parsedData.recordId))
                 THEN <<"Record ID is required for updates">> ELSE <<>>
        errors == typeErr \o nameErr \o stateErr \o idErr
    IN [isValid |-> Len(errors) = 0, errors |-> errors]

\* parseIssueBody on what the extractor makes of the body: no body at all,
\* a frontmatter block that does not close, or the raw field map
parseIssueBody(body) ==
    IF body.kind = "empty" THEN [error |-> "EmptyInput"]
    ELSE IF body.kind = "unclosedFrontmatter" THEN [error |-> "MalformedFrontmatter"]
    ELSE normalizeParsedData(body.fields)

\* String.prototype.toLowerCase on the words titles and labels are made of
toLowerCase(w) ==
    CASE w = "[Update]" -> "[update]"
      [] w = "Create:" -> "create:"
      [] w = "Update" -> "update"
      [] OTHER -> w

\* a title is its sequence of words
includes(title, word) == \E i \in 1 .. Len(title) : toLowerCase(title[i]) = word
startsWith(title, word) == title # <<>> /\ toLowerCase(title[1]) = word

detectIssueType(title, labels) ==
    LET labelNames == {toLowerCase(l) : l \in labels}
    IN IF "update" \in labelNames \/ "update-record" \in labelNames THEN "update"
       ELSE IF "create" \in labelNames \/ "create-record" \in labelNames THEN "create"
       ELSE IF includes(title, "[update]") \/ startsWith(title, "update:") THEN "update"
       ELSE IF includes(title, "[create]") \/ startsWith(title, "create:") THEN "create"
       ELSE "create"

(***************************************************************************)
(* db.js: the statements.                                                  *)
(***************************************************************************)

\* initDatabase(): the open handle is returned as it is; otherwise a
\* connection is opened and kept in db ("opened" counts the new Database calls)
initDatabase(h) ==
    IF h # "null"
    THEN [db |-> h, opened |-> 0]
    ELSE [db |-> "open", opened |-> 1]

\* closeDatabase(): an open handle is closed and forgotten
closeDatabase(h) == IF h # "null" THEN "null" ELSE h

\* SELECT * FROM users WHERE id = ?  (stmt.get(id) || null)
getRecord(db, id) == IF id \in DOMAIN db THEN db[id] ELSE null

\* a rowid that is the largest ever used, not one more
NextRowid_ReusesLargest(db, seq) == Max(seq, MaxOf(DOMAIN db))

\* the rowid AUTOINCREMENT assigns: one more than the largest ever used
NextRowid(db, seq) == Max(seq, MaxOf(DOMAIN db)) + 1

\* INSERT INTO users (...) VALUES (?, ?, ?, ?, datetime('now'), datetime('now'))
InsertStmt(db, id, name, state, options, username, t) ==
    [i \in DOMAIN db \cup {id} |->
        IF i = id
        THEN [id |-> id, name |-> name, state |-> state, options |-> options,
              github_username |-> username, created_at |-> t, updated_at |-> t]
        ELSE db[i]]

\* the rows UPDATE ... WHERE id = ? AND github_username = ? matches
UpdateMatches(db, id, username) ==
    {i \in DOMAIN db : i = id /\ db[i].github_username = username}

\* UPDATE users SET name = ?, state = ?, options = ?, updated_at = datetime('now')
\* WHERE id = ? AND github_username = ?
UpdateStmt(db, name, state, options, id, username, t) ==
    [i \in DOMAIN db |->
        IF i \in UpdateMatches(db, id, username)
        THEN [db[i] EXCEPT !.name = name, !.state = state,
                           !.options = options, !.updated_at = t]
        ELSE db[i]]

(***************************************************************************)
(* db.js: the exported operations, each a function of the table before.    *)
(* A result is [users, seq, outcome, ret].                                 *)
(***************************************************************************)

\* createRecord without "options || null"
createRecord_KeepsEmptyOptions(db, seq, name, state, options, username, t) ==
    LET id == NextRowid(db, seq)
        db2 == InsertStmt(db, id, name, state, options, username, t)
    IN [users |-> db2, seq |-> id, outcome |-> "ok", ret |-> getRecord(db2, id)]

createRecord(db, seq, name, state, options, username, t) ==
    LET id == NextRowid(db, seq)
        db2 == InsertStmt(db, id, name, state, Or(options, nullText), username, t)
    IN [users |-> db2, seq |-> id, outcome |-> "ok", ret |-> getRecord(db2, id)]

\* updateRecord without the existence check of lines 74-76
updateRecord_NoExistenceCheck(db, seq, id, name, state, options, username, t) ==
    LET existing == getRecord(db, id)
        db2 == UpdateStmt(db, name, state, Or(options, nullText), id, username, t)
        changes == Cardinality(UpdateMatches(db, id, username))
    IN IF existing # null /\ existing.github_username # username
       THEN [users |-> db, seq |-> seq, outcome |-> "Unauthorized", ret |-> null]
       ELSE IF changes = 0
       THEN [users |-> db2, seq |-> seq, outcome |-> "UpdateFailed", ret |-> null]
       ELSE [users |-> db2, seq |-> seq, outcome |-> "ok", ret |-> getRecord(db2, id)]

\* updateRecord that runs its UPDATE, by id alone, before the ownership check
updateRecord_WritesBeforeCheck(db, seq, id, name, state, options, username, t) ==
    LET existing == getRecord(db, id)
        db2 == [i \in DOMAIN db |->
                   IF i = id
                   THEN [db[i] EXCEPT !.name = name, !.state = state,
                                      !.options = Or(options, nullText),
                                      !.updated_at = t]
                   ELSE db[i]]
    IN IF existing = null
       THEN [users |-> db, seq |-> seq, outcome |-> "RecordNotFound", ret |-> null]
       ELSE IF existing.github_username # username
       THEN [users |-> db2, seq |-> seq, outcome |-> "Unauthorized", ret |-> null]
       ELSE [users |-> db2, seq |-> seq, outcome |-> "ok", ret |-> getRecord(db2, id)]

\* updateRecord that overwrites the whole row by id, the owner column included
updateRecord_TakesOwnership(db, seq, id, name, state, options, username, t) ==
    LET existing == getRecord(db, id)
        db2 == [i \in DOMAIN db |->
                   IF i = id
                   THEN [db[i] EXCEPT !.name = name, !.state = state,
                                      !.options = Or(options, nullText),
                                      !.github_username = username,
                                      !.updated_at = t]
                   ELSE db[i]]
    IN IF existing = null
       THEN [users |-> db, seq |-> seq, outcome |-> "RecordNotFound", ret |-> null]
       ELSE [users |-> db2, seq |-> seq, outcome |-> "ok", ret |-> getRecord(db2, id)]

updateRecord(db, seq, id, name, state, options, username, t) ==
    LET existing == getRecord(db, id)
        db2 == UpdateStmt(db, name, state, Or(options, nullText), id, username, t)
        changes == Cardinality(UpdateMatches(db, id, username))
    IN IF existing = null
       THEN [users |-> db, seq |-> seq, outcome |-> "RecordNotFound", ret |-> null]
       ELSE IF existing.github_username # username
       THEN [users |-> db, seq |-> seq, outcome |-> "Unauthorized", ret |-> null]
       ELSE IF changes = 0
       THEN [users |-> db2, seq |-> seq, outcome |-> "UpdateFailed", ret |-> null]
       ELSE [users |-> db2, seq |-> seq, outcome |-> "ok", ret |-> getRecord(db2, id)]

\* SELECT * FROM users WHERE github_username = ? ORDER BY created_at DESC LIMIT 1:
\* the rows the statement may return.  Rows with equal created_at are in no
\* specified order, so any of the newest rows may come first.
getRecordByUsername(db, username) ==
    LET mine == {i \in DOMAIN db : db[i].github_username = username}
        newest == {i \in mine : \A j \in mine : db[j].created_at <= db[i].created_at}
    IN IF mine = {} THEN {null} ELSE {db[i] : i \in newest}

(***************************************************************************)
(* The store driven call by call.                                          *)
(***************************************************************************)
Payloads ==
    { [name |-> <<"A">>, state |-> <<"C", "A">>, options |-> <<>>],
      [name |-> <<"B">>, state |-> <<"T", "X">>, options |-> <<"x">>] }
Principals == {"alice", "bob"}
Ids == 0 .. MaxRecords + 1
Procs == {1, 2}
NoRun == [stage |-> "idle"]

Init ==
    /\ users = <<>>
    /\ sqlite_sequence = 0
    /\ now = 0
    /\ last = [op |-> "none"]
    /\ data = none
    /\ normalized = none
    /\ report = none
    /\ pc = [p \in Procs |-> "idle"]
    /\ call = [p \in Procs |-> none]
    /\ existingOf = [p \in Procs |-> none]
    /\ outcome = [p \in Procs |-> "none"]
    /\ crossed = {}
    /\ run = NoRun
    /\ runs = 0
    /\ usersAtStart = <<>>
    /\ opens = 0
    /\ thrown = "none"
    /\ handle = "null"

Tick ==
    /\ now < MaxClock
    /\ now' = now + 1
    /\ UNCHANGED <<users, sqlite_sequence, last>>
    /\ UNCHANGED <<parseVars, concVars, pipeVars, handle>>

Create(name, state, options, p) ==
    /\ Cardinality(DOMAIN users) < MaxRecords
    /\ LET r == createRecord(users, sqlite_sequence, name, state, options, p, now)
       IN /\ users' = r.users
          /\ sqlite_sequence' = r.seq
          /\ last' = [op |-> "create", outcome |-> r.outcome, ret |-> r.ret]
    /\ UNCHANGED <<now, parseVars, concVars, pipeVars>>
    /\ handle' = initDatabase(handle).db

Update(id, name, state, options, p) ==
    /\ LET r == updateRecord(users, sqlite_sequence, id, name, state, options, p, now)
       IN /\ users' = r.users
          /\ sqlite_sequence' = r.seq
          /\ last' = [op |-> "update", outcome |-> r.outcome, ret |-> r.ret]
    /\ UNCHANGED <<now, parseVars, concVars, pipeVars>>
    /\ handle' = initDatabase(handle).db

Get(id) ==
    /\ last' = [op |-> "get", outcome |-> "ok", ret |-> getRecord(users, id)]
    /\ UNCHANGED <<storeVars, parseVars, concVars, pipeVars>>
    /\ handle' = initDatabase(handle).db

GetLatestByOwner(p) ==
    /\ \E row \in getRecordByUsername(users, p) :
          last' = [op |-> "latest", outcome |-> "ok", ret |-> row]
    /\ UNCHANGED <<storeVars, parseVars, concVars, pipeVars>>
    /\ handle' = initDatabase(handle).db

Next ==
    \/ Tick
    \/ \E d \in Payloads, p \in Principals :
          Create(d.name, d.state, d.options, p)
    \/ \E id \in Ids, d \in Payloads, p \in Principals :
          Update(id, d.name, d.state, d.options, p)
    \/ \E id \in Ids : Get(id)
    \/ \E p \in Principals : GetLatestByOwner(p)

Spec == Init /\ [][Next]_vars

(***************************************************************************)
(* Claims about the store (under Spec).                                    *)
(***************************************************************************)

\* C1: an update of an existing record by a principal who is not its owner
\* fails with Unauthorized and leaves every record of the store as it was.
C1_UnauthorizedUpdateChangesNothing ==
    [][\A id \in Ids, d \in Payloads, p \in Principals :
          (/\ getRecord(users, id) # null
           /\ getRecord(users, id).github_username # p
           /\ Update(id, d.name, d.state, d.options, p))
          => (last'.outcome = "Unauthorized" /\ users' = users)]_vars

\* C1 witness: an update was refused as Unauthorized on a store holding records
C1_Witness ==
    /\ last.op = "update"
    /\ last.outcome = "Unauthorized"
    /\ DOMAIN users # {}

\* C3: no step removes a record or changes a record's id or owner.
C3_IdAndOwnerImmutable ==
    [][\A i \in DOMAIN users :
          /\ i \in DOMAIN users'
          /\ users[i].id = i
          /\ users'[i].id = i
          /\ users'[i].github_username = users[i].github_username]_vars

\* C3 witness: a successful update has rewritten a record
C3_Witness ==
    /\ last.op = "update"
    /\ last.outcome = "ok"
    /\ last.ret.updated_at > last.ret.created_at

\* C5: an update of an id that is not in the store fails with RecordNotFound,
\* whoever asks, and leaves the store as it was.
C5_UpdateOfMissingIdNotFound ==
    [][\A id \in Ids, d \in Payloads, p \in Principals :
          (id \notin DOMAIN users /\ Update(id, d.name, d.state, d.options, p))
          => (last'.outcome = "RecordNotFound" /\ users' = users)]_vars

\* C5 witness: an update was refused as RecordNotFound on the empty store
C5_Witness ==
    /\ last.op = "update"
    /\ last.outcome = "RecordNotFound"
    /\ DOMAIN users = {}

\* the record get(id) returns right after create(d, p) returned id
CreatedRow == getRecord(users', last'.ret.id)

\* C6 (as stated): create followed by get on the returned id returns the
\* name, state, options and owner given to create, with updatedAt = createdAt.
C6_CreateThenGetReturnsArguments ==
    [][\A d \in Payloads, p \in Principals :
          Create(d.name, d.state, d.options, p)
          => /\ CreatedRow # null
             /\ CreatedRow.name = d.name
             /\ CreatedRow.state = d.state
             /\ CreatedRow.options = d.options
             /\ CreatedRow.github_username = p
             /\ CreatedRow.updated_at = CreatedRow.created_at]_vars

\* C6 (amended): create followed by get on the returned id returns the name,
\* state and owner given to create, the options given to create when they are
\* not the empty string and null when they are, with updatedAt = createdAt.
C6_CreateThenGetReturnsArgumentsEmptyOptionsNull ==
    [][\A d \in Payloads, p \in Principals :
          Create(d.name, d.state, d.options, p)
          => /\ CreatedRow # null
             /\ CreatedRow.name = d.name
             /\ CreatedRow.state = d.state
             /\ CreatedRow.options = (IF d.options = <<>> THEN nullText ELSE d.options)
             /\ CreatedRow.github_username = p
             /\ CreatedRow.updated_at = CreatedRow.created_at]_vars

\* C6 witness: a second record was created, with empty options, after the clock moved
C6_Witness ==
    /\ last.op = "create"
    /\ last.ret.id = 2
    /\ last.ret.options = nullText
    /\ last.ret.created_at > 0

IsCreateStep ==
    \E d \in Payloads, p \in Principals : Create(d.name, d.state, d.options, p)

\* C7: a create adds exactly one record, whose id is new and greater than every
\* id assigned before; no other step changes the set of records.
C7_CreateAddsOneRecordWithGreaterId ==
    [][/\ IsCreateStep
          => /\ DOMAIN users' = DOMAIN users \cup {last'.ret.id}
             /\ Cardinality(DOMAIN users') = Cardinality(DOMAIN users) + 1
             /\ last'.ret.id > sqlite_sequence
             /\ \A i \in DOMAIN users : i < last'.ret.id
       /\ ~IsCreateStep => DOMAIN users' = DOMAIN users]_vars

\* C7 witness: a create has just filled the store, taking the greatest id so far
C7_Witness ==
    /\ last.op = "create"
    /\ Cardinality(DOMAIN users) = MaxRecords
    /\ last.ret.id = MaxRecords

\* the record of p created last: the one with the greatest id
LatestOf(p) ==
    LET mine == {i \in DOMAIN users : users[i].github_username = p}
    IN IF mine = {} THEN null ELSE users[MaxOf(mine)]

\* C8 (as stated): getLatestByOwner(p) returns p's record with the greatest id,
\* also when several were created in the same clock tick, and the not-found
\* sentinel exactly when p owns no record.
C8_LatestByOwnerIsGreatestId ==
    [][\A p \in Principals : GetLatestByOwner(p) => last'.ret = LatestOf(p)]_vars

(***************************************************************************)
(* The parser driven call by call: the extractor hands a raw field map to  *)
(* the normalizer, whose result goes to the validator; the validator is    *)
(* exported and is also called on records of the caller's own.             *)
(***************************************************************************)

\* the text after "key:" on a frontmatter line, per key
IdTexts == {<<"0">>, <<"7">>, <<"-", "1">>, <<"x">>, <<"2", "x">>, <<"\"", "\"">>}
NameTexts == {<<"A">>, <<"'", " ", "'">>, <<"\"", "\"">>}
StateTexts == {<<"C", "A">>, <<"'", " ", "'">>}
OptionTexts == {<<"x">>}

\* a key's value in the raw field map: undefined when no line names the key
RawValues(texts) == {undefined} \cup {FrontmatterValue(v) : v \in texts}

RawFieldMaps ==
    [recordId : RawValues(IdTexts),
     record_id : RawValues({<<"7">>, <<"\"", "\"">>}),
     id : RawValues({<<"3">>, <<"\"", "\"">>}),
     name : RawValues(NameTexts),
     state : RawValues(StateTexts),
     options : RawValues(OptionTexts)]

\* records handed to the validator directly
ParsedInputs ==
    [type : {"create", "update"},
     name : {undefined, <<" ">>, <<"A">>},
     state : {<<>>, <<"C", "A">>},
     options : {<<>>},
     recordId : {null, NaN, Num(0), Num(-1), Num(7)}]

IssueTypes == {"create", "update"}

InitParse ==
    /\ Init

Extract(d) ==
    /\ data = none
    /\ report = none
    /\ data' = d
    /\ normalized' = none
    /\ report' = none
    /\ UNCHANGED <<storeVars, last, concVars, pipeVars, handle>>

Normalize ==
    /\ data # none
    /\ normalized = none
    /\ normalized' = normalizeParsedData(data)
    /\ UNCHANGED <<storeVars, last, data, report, concVars, pipeVars, handle>>

Validate(issueType) ==
    /\ normalized # none
    /\ normalized # [error |-> "InvalidRecordId"]
    /\ report' = [parsedData |-> normalized, issueType |-> issueType,
                  validation |-> validateIssueData(normalized, issueType)]
    /\ UNCHANGED <<storeVars, last, data, normalized, concVars, pipeVars, handle>>

ValidateDirect(parsedData, issueType) ==
    /\ data = none
    /\ data' = none
    /\ normalized' = none
    /\ report' = [parsedData |-> parsedData, issueType |-> issueType,
                  validation |-> validateIssueData(parsedData, issueType)]
    /\ UNCHANGED <<storeVars, last, concVars, pipeVars, handle>>

NextParse ==
    \/ \E d \in RawFieldMaps : Extract(d)
    \/ Normalize
    \/ \E k \in IssueTypes : Validate(k)
    \/ \E pd \in ParsedInputs, k \in IssueTypes : ValidateDirect(pd, k)

SpecParse == InitParse /\ [][NextParse]_vars

(***************************************************************************)
(* Claims about the normalizer and the validator (under SpecParse).        *)
(***************************************************************************)
Produced == data # none /\ normalized # none /\ normalized # [error |-> "InvalidRecordId"]

\* C9 (as stated): every record the normalizer produces has kind UPDATE
\* exactly when an identifier key (recordId, record_id or id) is present in
\* the raw field map, and a non-null recordId exactly when its kind is UPDATE.
C9_UpdateIffIdentifierPresent ==
    Produced =>
        /\ (normalized.type = "update") <=> (\E k \in IdKeys : data[k] # undefined)
        /\ (normalized.recordId # null) <=> (normalized.type = "update")

\* C9 (amended): every record the normalizer produces has kind UPDATE exactly
\* when an identifier key is present with a non-empty value, and a non-null
\* recordId exactly when its kind is UPDATE.
C9_UpdateIffIdentifierNonEmpty ==
    Produced =>
        /\ (normalized.type = "update") <=> (\E k \in IdKeys : Truthy(data[k]))
        /\ (normalized.recordId # null) <=> (normalized.type = "update")

\* C9 witness: recordId is present but empty, id is "3": an UPDATE of record 3
C9_Witness ==
    /\ Produced
    /\ data.recordId = <<>>
    /\ data.record_id = undefined
    /\ data.id = <<"3">>
    /\ normalized.type = "update"
    /\ normalized.recordId = Num(3)

RecordIdReported ==
    \E i \in 1 .. Len(report.validation.errors) :
        report.validation.errors[i] = "Record ID is required for updates"

\* C10 (as stated): when UPDATE is expected the validator reports the missing
\* record id exactly when recordId is null or NaN (never for an integer, 0 and
\* negatives included); when CREATE is expected it never reports it.
C10_MissingRecordIdIffAbsentOrNaN ==
    report # none =>
        IF report.issueType = "update"
        THEN RecordIdReported <=> (report.parsedData.recordId \in {null, NaN})
        ELSE ~RecordIdReported

NameAndStateBlank ==
    /\ report # none
    /\ Blank(report.parsedData.name)
    /\ Blank(report.parsedData.state)

\* C11 (as stated): for every record whose name and state are both empty after
\* trimming, and for every expected kind, the report holds exactly two errors,
\* the missing name and the missing state.
C11_BlankNameAndStateGiveExactlyTwoErrors ==
    NameAndStateBlank =>
        report.validation.errors = <<"Name is required", "State is required">>

\* the validator's other two checks pass: the record's kind is the expected
\* one and, when UPDATE is expected, recordId is an integer other than 0
OtherChecksPass ==
    /\ report.parsedData.type = report.issueType
    /\ report.issueType = "update" => report.parsedData.recordId \notin {null, NaN, Num(0)}

\* C11 (amended): for every record whose name and state are both empty after
\* trimming, and for every expected kind, the report holds both the missing
\* name and the missing state, in that order and once each, whatever else it
\* holds; it holds exactly these two when the record's kind is the expected
\* kind and, for expected UPDATE, recordId is an integer other than 0.
C11_BlankNameAndStateBothReported ==
    NameAndStateBlank =>
        LET errors == report.validation.errors
            at(e) == {i \in 1 .. Len(errors) : errors[i] = e}
        IN /\ Cardinality(at("Name is required")) = 1
           /\ Cardinality(at("State is required")) = 1
           /\ \A i \in at("Name is required"), j \in at("State is required") : i < j
           /\ ~report.validation.isValid
           /\ OtherChecksPass =>
                 errors = <<"Name is required", "State is required">>

\* C11 witness: an update of record 7 with a blank name and no state, checked
\* as an update: two errors
C11_Witness ==
    /\ NameAndStateBlank
    /\ report.issueType = "update"
    /\ report.parsedData.type = "update"
    /\ report.parsedData.name = <<" ">>
    /\ report.parsedData.recordId = Num(7)
    /\ Len(report.validation.errors) = 2


(***************************************************************************)
(* Two invocations on one database file, each in the update branch of      *)
(* processIssue (process-issue.js 87-103) with updateRecord (db.js 69-95)  *)
(* run statement by statement: better-sqlite3 runs each statement in a     *)
(* transaction of its own, and updateRecord opens none around them.        *)
(***************************************************************************)

\* the database file the invocations share: alice's record 1
SharedUsers ==
    createRecord(<<>>, 0, <<"A">>, <<"C", "A">>, <<>>, "alice", 0)

ConcIds == {1, 3}

InitConc ==
    /\ users = SharedUsers.users
    /\ sqlite_sequence = SharedUsers.seq
    /\ now = 0
    /\ last = [op |-> "none"]
    /\ data = none
    /\ normalized = none
    /\ report = none
    /\ pc = [p \in Procs |-> "idle"]
    /\ call = [p \in Procs |-> none]
    /\ existingOf = [p \in Procs |-> none]
    /\ outcome = [p \in Procs |-> "none"]
    /\ crossed = {}
    /\ run = NoRun
    /\ runs = 0
    /\ usersAtStart = <<>>
    /\ opens = 0
    /\ thrown = "none"
    /\ handle = "null"

\* the invocation starts on an update submission that passed validation (each
\* invocation is a process of its own, whose handle this specification does
\* not follow)
Begin(p, id, d, who) ==
    /\ pc[p] = "idle"
    /\ pc' = [pc EXCEPT ![p] = "getRecord89"]
    /\ call' = [call EXCEPT ![p] = [id |-> id, name |-> d.name, state |-> d.state,
                                    options |-> d.options, who |-> who]]
    /\ UNCHANGED <<storeVars, last, parseVars, pipeVars, handle, existingOf, outcome, crossed>>

\* process-issue.js 89-94: const existingRecord = getRecord(parsedData.recordId)
VerifyExists(p) ==
    /\ pc[p] = "getRecord89"
    /\ IF getRecord(users, call[p].id) = null
       THEN /\ pc' = [pc EXCEPT ![p] = "done"]
            /\ outcome' = [outcome EXCEPT ![p] = "RecordNotFound"]
       ELSE /\ pc' = [pc EXCEPT ![p] = "getRecord73"]
            /\ UNCHANGED outcome
    /\ UNCHANGED <<storeVars, last, parseVars, pipeVars, handle, call, existingOf, crossed>>

\* db.js 73: const existing = getRecord(id)
Lookup(p) ==
    /\ pc[p] = "getRecord73"
    /\ existingOf' = [existingOf EXCEPT ![p] = getRecord(users, call[p].id)]
    /\ pc' = [pc EXCEPT ![p] = "check"]
    /\ UNCHANGED <<storeVars, last, parseVars, pipeVars, handle, call, outcome, crossed>>

\* db.js 74-80: the existence and ownership checks on "existing"
Check(p) ==
    /\ pc[p] = "check"
    /\ IF existingOf[p] = null
       THEN /\ pc' = [pc EXCEPT ![p] = "done"]
            /\ outcome' = [outcome EXCEPT ![p] = "RecordNotFound"]
       ELSE IF existingOf[p].github_username # call[p].who
       THEN /\ pc' = [pc EXCEPT ![p] = "done"]
            /\ outcome' = [outcome EXCEPT ![p] = "Unauthorized"]
       ELSE /\ pc' = [pc EXCEPT ![p] = "update"]
            /\ UNCHANGED outcome
    /\ UNCHANGED <<storeVars, last, parseVars, pipeVars, handle, call, existingOf, crossed>>

\* db.js 82-92: the UPDATE statement and the check of result.changes
Write(p) ==
    /\ pc[p] = "update"
    /\ users' = UpdateStmt(users, call[p].name, call[p].state,
                           Or(call[p].options, nullText), call[p].id, call[p].who, now)
    /\ IF Cardinality(UpdateMatches(users, call[p].id, call[p].who)) = 0
       THEN /\ pc' = [pc EXCEPT ![p] = "done"]
            /\ outcome' = [outcome EXCEPT ![p] = "UpdateFailed"]
       ELSE /\ pc' = [pc EXCEPT ![p] = "reread"]
            /\ UNCHANGED outcome
    /\ crossed' = crossed \cup
          {q \in Procs \ {p} : pc[q] = "update" /\ call[q].id = call[p].id
                               /\ UpdateMatches(users, call[p].id, call[p].who) # {}}
    /\ UNCHANGED <<sqlite_sequence, now, last, parseVars, pipeVars, handle, call, existingOf>>

\* db.js 94 and process-issue.js 104-127: return getRecord(id), report success
Reread(p) ==
    /\ pc[p] = "reread"
    /\ existingOf' = [existingOf EXCEPT ![p] = getRecord(users, call[p].id)]
    /\ pc' = [pc EXCEPT ![p] = "done"]
    /\ outcome' = [outcome EXCEPT ![p] = "ok"]
    /\ UNCHANGED <<storeVars, last, parseVars, pipeVars, handle, call, crossed>>

NextConc ==
    \/ Tick
    \/ \E p \in Procs, id \in ConcIds, d \in Payloads, who \in Principals :
          Begin(p, id, d, who)
    \/ \E p \in Procs : VerifyExists(p)
    \/ \E p \in Procs : Lookup(p)
    \/ \E p \in Procs : Check(p)
    \/ \E p \in Procs : Write(p)
    \/ \E p \in Procs : Reread(p)

SpecConc == InitConc /\ [][NextConc]_vars

\* C2 (as stated): two concurrent updates of one record never both report
\* success when one of them wrote between the other's ownership check and
\* the other's write.
C2_NoTwoSuccessesAcrossAWrite ==
    ~ \E p \in Procs, q \in Procs :
         /\ p # q
         /\ outcome[p] = "ok"
         /\ outcome[q] = "ok"
         /\ p \in crossed

(***************************************************************************)
(* process-issue.js: processIssue, one invocation after another on the     *)
(* database file the workflow commits between them.  An invocation is a    *)
(* process of its own: its locals start afresh.                            *)
(***************************************************************************)
MaxRuns == 2

Titles == {<<>>, <<"fix">>, <<"[Update]", "fix">>, <<"Create:", "new">>,
           <<"update:", "[create]">>}
LabelSets == {{}, {"bug"}, {"Update"}, {"create-record"}, {"create", "update-record"}}

PipeFieldMaps ==
    [recordId : RawValues({<<"1">>, <<"2">>, <<"0">>, <<"x">>}),
     record_id : {undefined},
     id : {undefined},
     name : RawValues({<<"A">>, <<"\"", " ", "B", "\"">>}),
     state : RawValues({<<"C", "A">>}),
     options : RawValues({<<"x">>})]

Bodies ==
    {[kind |-> "empty"], [kind |-> "unclosedFrontmatter"]}
    \cup {[kind |-> "fields", fields |-> f] : f \in PipeFieldMaps}

\* the exits the submitter is told about without the store having been asked to write
ParseExits == {"EmptyInput", "MalformedFrontmatter", "InvalidRecordId"}
FailureExits == ParseExits \cup {"ValidationFailed", "RecordNotFound", "Unauthorized"}

InitPipe ==
    /\ Init

\* the errors processIssue rejects with (lines 129-131 rethrow them)
StartFaults == {"NoToken", "NoIssue"}

\* lines 13-36: the context is read and the kind detected from title and labels
Classify(title, labels, author) ==
    /\ run.stage \in {"idle", "done"}
    /\ runs < MaxRuns
    /\ runs' = runs + 1
    /\ usersAtStart' = users
    /\ opens' = 0
    /\ thrown' = "none"
    /\ run' = [stage |-> "parse", issueType |-> detectIssueType(title, labels),
               issueAuthor |-> author]
    /\ UNCHANGED <<storeVars, last, parseVars, concVars, handle>>

\* lines 13-24: no token, or no issue in the context: the error is thrown
\* before anything else is done, and control passes to catch and finally
StartFault(kind) ==
    /\ run.stage \in {"idle", "done"}
    /\ runs < MaxRuns
    /\ runs' = runs + 1
    /\ usersAtStart' = users
    /\ opens' = 0
    /\ thrown' = kind
    /\ run' = [stage |-> "finally", exit |-> "UnexpectedFault"]
    /\ UNCHANGED <<storeVars, last, parseVars, concVars, handle>>

\* lines 38-47: the body is parsed; a failure is to be reported and ends the run
Parse(body) ==
    /\ run.stage = "parse"
    /\ LET parsed == parseIssueBody(body)
       IN IF "error" \in DOMAIN parsed
          THEN run' = [stage |-> "comment", issueType |-> run.issueType,
                       issueAuthor |-> run.issueAuthor, exit |-> parsed.error]
          ELSE run' = [stage |-> "validate", issueType |-> run.issueType,
                       issueAuthor |-> run.issueAuthor, parsedData |-> parsed]
    /\ UNCHANGED <<storeVars, last, parseVars, concVars, runs, usersAtStart,
                   opens, thrown, handle>>

\* lines 49-56 with the report ignored: the run goes on whatever it says
CheckValid_IgnoresReport ==
    /\ run.stage = "validate"
    /\ run' = [stage |-> "apply", issueType |-> run.issueType,
               issueAuthor |-> run.issueAuthor, parsedData |-> run.parsedData,
               validation |-> validateIssueData(run.parsedData, run.issueType)]
    /\ UNCHANGED <<storeVars, last, parseVars, concVars, runs, usersAtStart,
                   opens, thrown, handle>>

\* lines 49-56: the record is validated; an invalid one is to be reported and
\* ends the run
CheckValid ==
    /\ run.stage = "validate"
    /\ LET validation == validateIssueData(run.parsedData, run.issueType)
       IN IF ~validation.isValid
          THEN run' = [stage |-> "comment", issueType |-> run.issueType,
                       issueAuthor |-> run.issueAuthor, parsedData |-> run.parsedData,
                       validation |-> validation, exit |-> "ValidationFailed"]
          ELSE run' = [stage |-> "apply", issueType |-> run.issueType,
                       issueAuthor |-> run.issueAuthor, parsedData |-> run.parsedData,
                       validation |-> validation]
    /\ UNCHANGED <<storeVars, last, parseVars, concVars, runs, usersAtStart,
                   opens, thrown, handle>>

\* parsedData.options ? parsedData.options.trim() : null
TrimmedOptions(options) == IF Truthy(options) THEN Trim(options) ELSE nullText

\* SELECT ... WHERE id = ? bound to a record id: null and NaN match no row
RowId(recordId) == IF recordId \in {null, NaN} THEN 0 ELSE recordId.num

\* the branch is over and its message is about to be posted
Ended(exit) == [stage |-> "comment", issueType |-> run.issueType,
                issueAuthor |-> run.issueAuthor, parsedData |-> run.parsedData,
                validation |-> run.validation, exit |-> exit]

\* line 59's initDatabase() followed by the one the store functions make
\* themselves: the handle after both and the connections they opened
InitDatabaseTwice(h) ==
    LET first == initDatabase(h)
        second == initDatabase(first.db)
    IN [db |-> second.db, opened |-> first.opened + second.opened]

\* lines 58-84: initDatabase, then the create branch
ApplyCreate ==
    /\ run.stage = "apply"
    /\ run.issueType = "create"
    /\ LET r == createRecord(users, sqlite_sequence,
                             Trim(run.parsedData.name), Trim(run.parsedData.state),
                             TrimmedOptions(run.parsedData.options),
                             run.issueAuthor, now)
       IN /\ users' = r.users
          /\ sqlite_sequence' = r.seq
          /\ run' = Ended("Created")
    /\ handle' = InitDatabaseTwice(handle).db
    /\ opens' = opens + InitDatabaseTwice(handle).opened
    /\ UNCHANGED <<now, last, parseVars, concVars, runs, usersAtStart, thrown>>

\* lines 58-59 and 85-114: initDatabase, then the update branch
ApplyUpdate ==
    /\ run.stage = "apply"
    /\ run.issueType = "update"
    /\ LET id == RowId(run.parsedData.recordId)
           r == updateRecord(users, sqlite_sequence, id,
                             Trim(run.parsedData.name), Trim(run.parsedData.state),
                             TrimmedOptions(run.parsedData.options),
                             run.issueAuthor, now)
       IN IF getRecord(users, id) = null
          THEN /\ run' = Ended("RecordNotFound")
               /\ UNCHANGED <<users, sqlite_sequence>>
          ELSE /\ users' = r.users
               /\ sqlite_sequence' = r.seq
               /\ run' = Ended(IF r.outcome = "ok" THEN "Updated" ELSE r.outcome)
    /\ handle' = InitDatabaseTwice(handle).db
    /\ opens' = opens + InitDatabaseTwice(handle).opened
    /\ UNCHANGED <<now, last, parseVars, concVars, runs, usersAtStart, thrown>>

\* line 59 (db.js 16-34): initDatabase() throws, either from new Database,
\* with no handle kept, or from db.exec, with the handle already kept; the
\* error leaves processIssue through catch and finally
InitDatabaseFault ==
    /\ run.stage = "apply"
    /\ handle = "null"
    /\ \/ UNCHANGED <<handle, opens>>
       \/ /\ handle' = initDatabase(handle).db
          /\ opens' = opens + initDatabase(handle).opened
    /\ thrown' = "StoreFault"
    /\ run' = [Ended("UnexpectedFault") EXCEPT !.stage = "finally"]
    /\ UNCHANGED <<storeVars, last, parseVars, concVars, runs, usersAtStart>>

\* lines 80-84 and 110-114: a statement of the branch throws (the file is
\* locked, say); nothing is written and the error is to be reported
ApplyStoreError ==
    /\ run.stage = "apply"
    /\ run' = Ended("StoreError")
    /\ handle' = InitDatabaseTwice(handle).db
    /\ opens' = opens + InitDatabaseTwice(handle).opened
    /\ UNCHANGED <<storeVars, last, parseVars, concVars, runs, usersAtStart, thrown>>

\* lines 44, 53, 81, 91, 111, 120: the comment is posted; after a failure
\* message the run returns, after the success message it goes on to line 123
PostComment ==
    /\ run.stage = "comment"
    /\ run' = [run EXCEPT !.stage = IF run.exit \in {"Created", "Updated"}
                                    THEN "closeIssue" ELSE "finally"]
    /\ UNCHANGED <<storeVars, last, parseVars, concVars, runs, usersAtStart,
                   opens, thrown, handle>>

\* the same lines with createComment rejecting: the error leaves processIssue
PostCommentFault ==
    /\ run.stage = "comment"
    /\ thrown' = "NotificationFault"
    /\ run' = [run EXCEPT !.stage = "finally"]
    /\ UNCHANGED <<storeVars, last, parseVars, concVars, runs, usersAtStart,
                   opens, handle>>

\* lines 123-127: the issue is closed and the outputs are set
CloseIssue ==
    /\ run.stage = "closeIssue"
    /\ run' = [run EXCEPT !.stage = "finally"]
    /\ UNCHANGED <<storeVars, last, parseVars, concVars, runs, usersAtStart,
                   opens, thrown, handle>>

\* line 123 with issues.update rejecting: the error leaves processIssue
CloseIssueFault ==
    /\ run.stage = "closeIssue"
    /\ thrown' = "NotificationFault"
    /\ run' = [run EXCEPT !.stage = "finally"]
    /\ UNCHANGED <<storeVars, last, parseVars, concVars, runs, usersAtStart,
                   opens, handle>>

\* closeDatabase() as the last statement of the try block instead: an error
\* on its way out passes it by
Finally_OnlyWithoutError ==
    /\ run.stage = "finally"
    /\ handle' = IF thrown = "none" THEN closeDatabase(handle) ELSE handle
    /\ run' = [run EXCEPT !.stage = "done"]
    /\ UNCHANGED <<storeVars, last, parseVars, concVars, runs, usersAtStart,
                   opens, thrown>>

\* lines 129-135: whether the run returned or threw, closeDatabase() is
\* called, and processIssue is over
Finally ==
    /\ run.stage = "finally"
    /\ handle' = closeDatabase(handle)
    /\ run' = [run EXCEPT !.stage = "done"]
    /\ UNCHANGED <<storeVars, last, parseVars, concVars, runs, usersAtStart,
                   opens, thrown>>

\* time passes between and during invocations
TickPipe ==
    /\ now < MaxClock
    /\ now' = now + 1
    /\ UNCHANGED <<users, sqlite_sequence, last, parseVars, concVars, pipeVars, handle>>

NextPipe ==
    \/ TickPipe
    \/ \E title \in Titles, labels \in LabelSets, author \in Principals :
          Classify(title, labels, author)
    \/ \E kind \in StartFaults : StartFault(kind)
    \/ \E body \in Bodies : Parse(body)
    \/ CheckValid
    \/ ApplyCreate
    \/ ApplyUpdate
    \/ InitDatabaseFault
    \/ ApplyStoreError
    \/ PostComment
    \/ PostCommentFault
    \/ CloseIssue
    \/ CloseIssueFault
    \/ Finally

SpecPipe == InitPipe /\ [][NextPipe]_vars

\* C4: the store is written only in a run whose body parsed and whose record
\* the validator found valid, and a run that ends in a parse failure, an
\* identifier-coercion failure, a validation failure, RecordNotFound or
\* Unauthorized leaves the store as the run found it.
C4_StoreWrittenOnlyAfterValidation ==
    /\ [][users' # users =>
            /\ run.stage = "apply"
            /\ "error" \notin DOMAIN run.parsedData
            /\ run.validation.isValid]_vars
    /\ []((run.stage = "done" /\ run.exit \in FailureExits) => users = usersAtStart)

\* C4 witness: an update by someone else was refused as Unauthorized, on a
\* store whose clock had moved since the record was created
C4_Witness ==
    /\ run.stage = "done"
    /\ run.exit = "Unauthorized"
    /\ users = usersAtStart
    /\ \E i \in DOMAIN users : now > users[i].updated_at

\* C12: in every run of processIssue, whichever way it ends (success, parse
\* failure, validation failure, store error, a fault of the notification or
\* any other thrown error), the run opens the connection at most once, and
\* when processIssue is over the shared handle is null again.
C12_ConnectionReleasedOnEveryExit ==
    /\ opens <= 1
    /\ run.stage = "done" => handle = "null"

\* C12 witness: a record was created over the one connection the run opened,
\* posting the success comment failed, and the run is over with the handle
\* closed
C12_Witness ==
    /\ run.stage = "done"
    /\ run.exit = "Created"
    /\ thrown = "NotificationFault"
    /\ opens = 1
    /\ handle = "null"
    /\ users # usersAtStart

====
